---- MODULE Spec2Model ----
(***************************************************************************)
(* ctx-pick: resolution of input tokens to files (file_resolver.rs), the   *)
(* aggregation of the resolutions and the run's outcome (main.rs), and the *)
(* depth-limited skeleton walk (symbol_extractor.rs).                      *)
(*                                                                         *)
(* A string is a sequence of one-character strings; a path is the sequence *)
(* of its components from the filesystem root ("/w/d/ab" is                *)
(* <<"w">>, <<"d">>, <<"a","b">>).                                         *)
(***************************************************************************)
EXTENDS Integers, Sequences, FiniteSets, TLC

VARIABLES
    fs,                          \* the filesystem the run sees (unchanged during the run)
    inputs,                      \* cli.inputs
    pc,                          \* position of main
    all_resolutions,             \* main: all_resolutions
    res_idx,                     \* main: position of `for resolution in &all_resolutions`
    file_idx,                    \* main: position of `for resolved_file in resolved_files_for_input`
    final_ordered_files,         \* main: final_ordered_files
    seen_canonical_paths,        \* main: seen_canonical_paths
    path_does_not_exist_errors,  \* main: failure bucket
    not_founds,                  \* main: failure bucket
    ambiguities_found,           \* main: failure bucket
    invalid_glob_patterns,       \* main: failure bucket
    file_contexts,               \* main: file_contexts
    sk_pc,                       \* position of create_skeleton_by_depth
    file_extension,              \* create_skeleton_by_depth: file_extension
    max_depth,                   \* create_skeleton_by_depth: max_depth
    parse_ok,                    \* whether parser.parse returns a tree
    tree,                        \* the syntax tree (pre-order list of node depths)
    source_shift,                \* which text each leaf of the tree covers
    stack,                       \* pending calls of collect_tokens_at_depth
    tokens,                      \* create_skeleton_by_depth: tokens
    visited,                     \* nodes whose call passed the depth test
    skeleton,                    \* the value create_skeleton_by_depth returns
    gen_pc,                      \* position of generate_file_contexts
    gen_files,                   \* generate_file_contexts: files
    cli_depth,                   \* generate_file_contexts: depth
    gen_idx,                     \* position of `for resolved_file in files`
    read_failed,                 \* the turns in which read_to_string returned Err
    extract_failed,              \* the turns in which create_skeleton_by_depth returned Err
    contexts                     \* generate_file_contexts: contexts

mainVars == <<fs, inputs, pc, all_resolutions, res_idx, file_idx, final_ordered_files,
              seen_canonical_paths, path_does_not_exist_errors, not_founds,
              ambiguities_found, invalid_glob_patterns, file_contexts>>

skelVars == <<sk_pc, file_extension, max_depth, parse_ok, tree, source_shift, stack,
              tokens, visited, skeleton>>

genVars == <<gen_pc, gen_files, cli_depth, gen_idx, read_failed, extract_failed, contexts>>

vars == <<mainVars, skelVars, genVars>>

(***************************************************************************)
(* Bounds of the model.                                                    *)
(***************************************************************************)
MaxInputs == 2

MaxNodes == 6

MaxSkelDepth == 2

(***************************************************************************)
(* Strings and paths.                                                      *)
(***************************************************************************)
\* The byte of a character (str and OsStr compare bytewise).
Code(c) ==
    CASE c = "*" -> 42
      [] c = "." -> 46
      [] c = "/" -> 47
      [] c = "a" -> 97
      [] c = "b" -> 98
      [] c = "d" -> 100
      [] c = "e" -> 101
      [] c = "l" -> 108
      [] c = "w" -> 119
      [] OTHER -> 0

RECURSIVE StrLessFrom(_, _, _)
StrLessFrom(s, t, i) ==
    IF i > Len(t) THEN FALSE
    ELSE IF i > Len(s) THEN TRUE
    ELSE IF Code(s[i]) < Code(t[i]) THEN TRUE
    ELSE IF Code(s[i]) > Code(t[i]) THEN FALSE
    ELSE StrLessFrom(s, t, i + 1)

\* s < t for strings (lexicographic on bytes)
StrLess(s, t) == StrLessFrom(s, t, 1)

RECURSIVE PathLessFrom(_, _, _)
PathLessFrom(p, q, i) ==
    IF i > Len(q) THEN FALSE
    ELSE IF i > Len(p) THEN TRUE
    ELSE IF StrLess(p[i], q[i]) THEN TRUE
    ELSE IF StrLess(q[i], p[i]) THEN FALSE
    ELSE PathLessFrom(p, q, i + 1)

\* p < q for PathBuf (lexicographic on components)
PathLess(p, q) == PathLessFrom(p, q, 1)

\* str::contains
Contains(s, t) ==
    \E i \in 0..(Len(s) - Len(t)) : SubSeq(s, i + 1, i + Len(t)) = t

MAIN_SEPARATOR == "/"

RECURSIVE SplitFrom(_, _, _, _)
SplitFrom(str, i, cur, acc) ==
    IF i > Len(str) THEN (IF cur = <<>> THEN acc ELSE Append(acc, cur))
    ELSE IF str[i] = MAIN_SEPARATOR
         THEN SplitFrom(str, i + 1, <<>>, IF cur = <<>> THEN acc ELSE Append(acc, cur))
         ELSE SplitFrom(str, i + 1, Append(cur, str[i]), acc)

\* Path::components: the normal components of a path string
Components(str) == SplitFrom(str, 1, <<>>, <<>>)

\* Path::is_absolute
IsAbsolute(str) == Len(str) > 0 /\ str[1] = MAIN_SEPARATOR

\* Path::components().count(): the root directory is a component too
ComponentCount(str) == Len(Components(str)) + (IF IsAbsolute(str) THEN 1 ELSE 0)

\* a trailing separator makes the path name a directory
HasTrailingSeparator(str) ==
    /\ Components(str) # <<>>
    /\ str[Len(str)] = MAIN_SEPARATOR

\* Config::working_dir: "/w"
working_dir == << <<"w">> >>

\* Path::join
Join(base, str) == IF IsAbsolute(str) THEN Components(str) ELSE base \o Components(str)

ParentDir == <<".", ".">>

RECURSIVE CommonPrefixLen(_, _, _)
CommonPrefixLen(p, q, n) ==
    IF n < Len(p) /\ n < Len(q) /\ p[n + 1] = q[n + 1]
    THEN CommonPrefixLen(p, q, n + 1)
    ELSE n

\* pathdiff::diff_paths of two absolute paths
diff_paths(path, base) ==
    LET n == CommonPrefixLen(path, base, 0)
    IN  [i \in 1..(Len(base) - n) |-> ParentDir] \o SubSeq(path, n + 1, Len(path))

\* mutant of InsertSorted: the path goes to the end, whatever the order
InsertSortedAtEnd(sorted, p) == Append(sorted, p)

RECURSIVE InsertSorted(_, _)
InsertSorted(sorted, p) ==
    IF sorted = <<>> THEN <<p>>
    ELSE IF PathLess(p, Head(sorted)) THEN <<p>> \o sorted
    ELSE <<Head(sorted)>> \o InsertSorted(Tail(sorted), p)

RECURSIVE SortPaths(_)
\* Vec<PathBuf>::sort
SortPaths(s) == IF s = <<>> THEN <<>> ELSE InsertSorted(SortPaths(Tail(s)), Head(s))

RECURSIVE Dedup(_)
\* Vec::dedup: drops consecutive repeats
Dedup(s) ==
    IF Len(s) <= 1 THEN s
    ELSE IF s[1] = s[2] THEN Dedup(Tail(s))
    ELSE <<s[1]>> \o Dedup(Tail(s))

RECURSIVE FlattenSeq(_)
FlattenSeq(ss) == IF ss = <<>> THEN <<>> ELSE Head(ss) \o FlattenSeq(Tail(ss))

Range(s) == {s[i] : i \in DOMAIN s}

(***************************************************************************)
(* The filesystem: the entries that exist, each with its kind, and the     *)
(* files std::fs::canonicalize fails on.                                   *)
(***************************************************************************)
nW  == <<"w">>
nAB == <<"a", "b">>
nA  == <<"a">>
nB  == <<"b">>
nD  == <<"d">>
nE  == <<"e">>
nL  == <<"l">>
nSA == <<"*", "a">>
nSB == <<"*", "b">>

pRoot == <<>>
pAB   == <<nW, nAB>>
pSA   == <<nW, nSA>>
pSB   == <<nW, nSB>>
pD    == <<nW, nD>>
pDAB  == <<nW, nD, nAB>>
pDA   == <<nW, nD, nA>>
pDL   == <<nW, nD, nL>>
pDE   == <<nW, nD, nE>>
pDEB  == <<nW, nD, nE, nB>>

\* the symbolic link d/l points to d/ab
LinkTarget(p) == pDAB

\* "/" and the working directory always exist
BaseEntries == (pRoot :> "dir") @@ (working_dir :> "dir")

\* what "ab" in the working directory is
TopFileChoices ==
    { BaseEntries,
      BaseEntries @@ (pAB :> "file") }

\* whether the working directory holds the files "*a" and "*b"
StarFileChoices ==
    { BaseEntries,
      (pSA :> "file") @@ (pSB :> "file") }

\* what "d" in the working directory is, and what it holds
DirChoices ==
    { BaseEntries,
      (pD :> "special"),
      (pD :> "dir"),
      (pD :> "dir") @@ (pDAB :> "file"),
      (pD :> "dir") @@ (pDAB :> "file") @@ (pDL :> "link"),
      (pD :> "dir") @@ (pDA :> "file") @@ (pDAB :> "file"),
      (pD :> "dir") @@ (pDL :> "link"),
      (pD :> "dir") @@ (pDA :> "file") @@ (pDE :> "dir") @@ (pDEB :> "file") }

FileSystems ==
    { [kind |-> t @@ s @@ d, uncanon |-> u] :
        t \in TopFileChoices, s \in StarFileChoices, d \in DirChoices, u \in {{}, {pDAB}} }

\* the filesystems of the model: a file canonicalize fails on exists
ValidFileSystems == { f \in FileSystems : f.uncanon \subseteq DOMAIN f.kind }

\* std::fs::metadata(p): the kind of the entry p names, symbolic links followed
Stat(f, p) ==
    IF p \notin DOMAIN f.kind THEN "none"
    ELSE IF f.kind[p] = "link"
         THEN (IF LinkTarget(p) \in DOMAIN f.kind THEN f.kind[LinkTarget(p)] ELSE "none")
         ELSE f.kind[p]

\* std::fs::canonicalize(p)
canonicalize(f, p) ==
    LET real == IF p \in DOMAIN f.kind /\ f.kind[p] = "link" THEN LinkTarget(p) ELSE p
    IN  IF Stat(f, p) = "none" \/ real \in f.uncanon
        THEN [ok |-> FALSE]
        ELSE [ok |-> TRUE, path |-> real]

RECURSIVE SortNames(_)
\* the names of a set in ascending order
SortNames(S) ==
    IF S = {} THEN <<>>
    ELSE LET m == CHOOSE x \in S : \A y \in S \ {x} : StrLess(x, y)
         IN  <<m>> \o SortNames(S \ {m})

ChildNames(f, p) ==
    { q[Len(q)] : q \in { r \in DOMAIN f.kind : Len(r) = Len(p) + 1 /\ SubSeq(r, 1, Len(p)) = p } }

\* the most entries a directory of the model holds
MaxFanout == Cardinality({nAB, nSA, nSB, nD})

\* the orders in which a directory listing can come back: order[i] is the rank of the
\* i-th name (in ascending order) of the directory
WalkOrders ==
    { o \in [1..MaxFanout -> 1..MaxFanout] : \A i, j \in 1..MaxFanout : o[i] = o[j] => i = j }

\* the order WalkDir::sort_by_file_name gives
ByFileName == [i \in 1..MaxFanout |-> i]

\* std::fs::read_dir(p), as WalkDir sees it
ReadDir(f, p, order) ==
    LET sorted == SortNames(ChildNames(f, p))
        k == Len(sorted)
    IN  [n \in 1..k |->
            Append(p, sorted[CHOOSE i \in 1..k :
                                Cardinality({j \in 1..k : order[j] < order[i]}) = n - 1])]

RECURSIVE WalkFrom(_, _, _)
\* WalkDir::new(p).follow_links(true): p, then (p a directory) the walk of each entry of p
WalkFrom(f, p, order) ==
    LET st == Stat(f, p)
        listing == ReadDir(f, p, order)
    IN  <<[path |-> p, file_type |-> IF st = "none" THEN "error" ELSE st]>>
        \o (IF st = "dir"
            THEN FlattenSeq([i \in 1..Len(listing) |-> WalkFrom(f, listing[i], order)])
            ELSE <<>>)

(***************************************************************************)
(* file_resolver.rs                                                        *)
(***************************************************************************)
ResolvedFile(display_path, canonical_path) ==
    [display_path |-> display_path, canonical_path |-> canonical_path]

Success(files) == [kind |-> "Success", files |-> files]

Ambiguous(input_string, conflicting_paths) ==
    [kind |-> "Ambiguous", input_string |-> input_string,
     conflicting_paths |-> conflicting_paths]

NotFound(input_string) == [kind |-> "NotFound", input_string |-> input_string]

PathDoesNotExist(input_string, path_tried) ==
    [kind |-> "PathDoesNotExist", input_string |-> input_string, path_tried |-> path_tried]

is_walkdir_file_entry(entry) == entry.file_type = "file"

\* Ok(ResolvedFile) or Err
create_resolved_file(f, path_to_resolve) ==
    LET canonical_path == canonicalize(f, path_to_resolve)
    IN  IF ~canonical_path.ok
        THEN [ok |-> FALSE]
        ELSE [ok |-> TRUE,
              file |-> ResolvedFile(diff_paths(canonical_path.path, working_dir),
                                    canonical_path.path)]

\* the path the token is checked as, and what std::fs::metadata says of it
path_to_check(input_str) == Join(working_dir, input_str)

PathStat(f, input_str) ==
    LET st == Stat(f, path_to_check(input_str))
    IN  IF HasTrailingSeparator(input_str) /\ st # "dir" THEN "none" ELSE st

RECURSIVE ResolveEntries(_, _)
\* the directory branch's loop: the entries that are files and canonicalize
ResolveEntries(f, entries) ==
    IF entries = <<>> THEN <<>>
    ELSE LET entry == Head(entries)
             resolved == create_resolved_file(f, entry.path)
         IN  (IF entry.file_type = "file" /\ resolved.ok THEN <<resolved.file>> ELSE <<>>)
             \o ResolveEntries(f, Tail(entries))

\* mutant of files_in_dir: the directory's own entries only, no descent
files_in_dir_not_recursive(f, dir) ==
    LET listing == ReadDir(f, dir, ByFileName)
    IN  ResolveEntries(f, [i \in 1..Len(listing) |->
                              [path |-> listing[i], file_type |-> Stat(f, listing[i])]])

\* Step 1, a directory: every file beneath it, in file-name order
files_in_dir(f, dir) == ResolveEntries(f, Tail(WalkFrom(f, dir, ByFileName)))

RECURSIVE exact_filename_matches(_, _)
exact_filename_matches(entries, input_str) ==
    IF entries = <<>> THEN <<>>
    ELSE LET entry == Head(entries)
             file_path == entry.path
         IN  (IF /\ is_walkdir_file_entry(entry)
                 /\ file_path # <<>>
                 /\ file_path[Len(file_path)] = input_str
              THEN <<file_path>> ELSE <<>>)
             \o exact_filename_matches(Tail(entries), input_str)

RECURSIVE partial_filename_matches(_, _)
partial_filename_matches(entries, input_str) ==
    IF entries = <<>> THEN <<>>
    ELSE LET entry == Head(entries)
             file_path == entry.path
         IN  (IF /\ is_walkdir_file_entry(entry)
                 /\ file_path # <<>>
                 /\ file_path[Len(file_path)] # input_str
                 /\ input_str # <<>>
                 /\ Contains(file_path[Len(file_path)], input_str)
              THEN <<file_path>> ELSE <<>>)
             \o partial_filename_matches(Tail(entries), input_str)

\* mutant of ConsolidateMatches: exact and partial matches together
ConsolidateMatchesNoPriority(exact, partial) == Dedup(SortPaths(exact \o partial))

\* mutant of ConsolidateMatches: the matches stay in the order the walk found them
ConsolidateMatchesUnsorted(exact, partial) ==
    Dedup(IF exact # <<>> THEN exact ELSE partial)

\* exact matches first, else the partial ones; sorted, repeats dropped
ConsolidateMatches(exact, partial) ==
    Dedup(SortPaths(IF exact # <<>> THEN exact ELSE partial))

\* the candidates of the recursive search from the working directory
final_candidate_paths(f, input_str, order) ==
    LET entries == WalkFrom(f, working_dir, order)
    IN  ConsolidateMatches(exact_filename_matches(entries, input_str),
                           partial_filename_matches(entries, input_str))

\* the paths an Ambiguous carries
conflicting_display_paths(candidates) ==
    [i \in 1..Len(candidates) |-> diff_paths(candidates[i], working_dir)]

\* mutant of ResolveCandidates: no candidate is reported as a missing path
ResolveCandidatesMissingPath(f, input_str, candidates) ==
    IF Len(candidates) = 0 THEN PathDoesNotExist(input_str, path_to_check(input_str))
    ELSE IF Len(candidates) = 1
    THEN LET resolved == create_resolved_file(f, candidates[1])
         IN  IF resolved.ok THEN Success(<<resolved.file>>) ELSE NotFound(input_str)
    ELSE Ambiguous(input_str, conflicting_display_paths(candidates))

\* mutant of ResolveCandidates: of several candidates the first is taken
ResolveCandidatesPicksFirst(f, input_str, candidates) ==
    IF Len(candidates) = 0 THEN NotFound(input_str)
    ELSE LET resolved == create_resolved_file(f, candidates[1])
         IN  IF resolved.ok THEN Success(<<resolved.file>>) ELSE NotFound(input_str)

\* Step 3: the outcome by the number of candidates
ResolveCandidates(f, input_str, candidates) ==
    IF Len(candidates) = 0 THEN NotFound(input_str)
    ELSE IF Len(candidates) = 1
    THEN LET resolved == create_resolved_file(f, candidates[1])
         IN  IF resolved.ok THEN Success(<<resolved.file>>) ELSE NotFound(input_str)
    ELSE Ambiguous(input_str, conflicting_display_paths(candidates))

\* Step 1, a file
ResolveFile(f, input_str) ==
    LET resolved == create_resolved_file(f, path_to_check(input_str))
    IN  IF resolved.ok THEN Success(<<resolved.file>>) ELSE NotFound(input_str)

\* mutant of LooksLikePath: no token is taken for a path
LooksLikePathNever(input_str) == FALSE

\* Step 2's test: the token looks like a path
LooksLikePath(input_str) ==
    Contains(input_str, <<MAIN_SEPARATOR>>) \/ ComponentCount(input_str) > 1

\* mutant of ResolvePhase: a token without a separator is searched for by name
\* before it is tried as a path
ResolvePhaseSearchFirst(f, input_str) ==
    LET st == PathStat(f, input_str)
    IN  IF ~LooksLikePath(input_str) THEN "search"
        ELSE IF st = "file" THEN "file"
        ELSE IF st = "dir" THEN "dir"
        ELSE "missing_path"

\* which part of resolve_input_string decides the token
ResolvePhase(f, input_str) ==
    LET st == PathStat(f, input_str)
    IN  IF st = "file" THEN "file"
        ELSE IF st = "dir" THEN "dir"
        ELSE IF st = "none" /\ LooksLikePath(input_str) THEN "missing_path"
        ELSE "search"

\* resolve_input_string(input_str, config), the directory walk of step 3 listing
\* each directory in the given order
resolve_input_string(f, input_str, order) ==
    LET phase == ResolvePhase(f, input_str)
    IN  IF phase = "file" THEN ResolveFile(f, input_str)
        ELSE IF phase = "dir" THEN Success(files_in_dir(f, path_to_check(input_str)))
        ELSE IF phase = "missing_path"
        THEN PathDoesNotExist(input_str, path_to_check(input_str))
        ELSE ResolveCandidates(f, input_str, final_candidate_paths(f, input_str, order))

(***************************************************************************)
(* main.rs: main                                                           *)
(***************************************************************************)
\* the tokens the command line is drawn from:
\* ab, a, d, d/ab, d/l, e/b, *, a*, d/ and /w/ab
Tokens ==
    { <<"a", "b">>,
      <<"d", "/", "l">>,
      <<"a">>,
      <<"d">>,
      <<"d", "/", "a", "b">>,
      <<"e", "/", "b">>,
      <<"*">>,
      <<"a", "*">>,
      <<"d", "/">>,
      <<"/", "w", "/", "a", "b">> }

\* cli.inputs: one token at least (clap: required = true, num_args = 1..)
InputLists == UNION { [1..n -> Tokens] : n \in 1..MaxInputs }

\* Option<usize>
None == <<>>

Some(x) == <<x>>

\* cli.depth
DepthChoices == {None} \cup {Some(d) : d \in 0..MaxSkelDepth}

MainInit ==
    /\ fs \in ValidFileSystems
    /\ inputs \in InputLists
    /\ pc = "resolve"
    /\ all_resolutions = <<>>
    /\ res_idx = 1
    /\ file_idx = 1
    /\ final_ordered_files = <<>>
    /\ seen_canonical_paths = {}
    /\ path_does_not_exist_errors = <<>>
    /\ not_founds = <<>>
    /\ ambiguities_found = <<>>
    /\ invalid_glob_patterns = <<>>
    /\ file_contexts = <<>>

SkelIdle ==
    /\ sk_pc = "idle"
    /\ file_extension = <<>>
    /\ max_depth = 0
    /\ parse_ok = TRUE
    /\ tree = <<0>>
    /\ source_shift = 0
    /\ stack = <<>>
    /\ tokens = <<>>
    /\ visited = {}
    /\ skeleton = [ok |-> FALSE]

\* generate_file_contexts is not running
GenIdle ==
    /\ gen_pc = "idle"
    /\ gen_files = <<>>
    /\ cli_depth = None
    /\ gen_idx = 1
    /\ read_failed = {}
    /\ extract_failed = {}
    /\ contexts = <<>>

aggVars == <<res_idx, file_idx, final_ordered_files, seen_canonical_paths,
             path_does_not_exist_errors, not_founds, ambiguities_found,
             invalid_glob_patterns>>

\* one turn of `for input_str in &cli.inputs`
ResolveInput ==
    /\ pc = "resolve"
    /\ LET i == Len(all_resolutions) + 1
       IN  /\ \E order \in WalkOrders :
                all_resolutions' =
                    Append(all_resolutions, resolve_input_string(fs, inputs[i], order))
           /\ pc' = IF i = Len(inputs) THEN "aggregate" ELSE "resolve"
    /\ UNCHANGED <<fs, inputs, aggVars, file_contexts, skelVars, genVars>>

\* mutant of InsertIfNew: the file is pushed whether or not its path was seen
InsertAlways(seen, files, resolved_file) ==
    [seen |-> seen \cup {resolved_file.canonical_path}, files |-> Append(files, resolved_file)]

\* mutant of InsertIfNew: a new file goes to the front of the list
InsertAtFront(seen, files, resolved_file) ==
    IF resolved_file.canonical_path \in seen
    THEN [seen |-> seen, files |-> files]
    ELSE [seen |-> seen \cup {resolved_file.canonical_path},
          files |-> <<resolved_file>> \o files]

\* seen_canonical_paths.insert(..) and the push it guards
InsertIfNew(seen, files, resolved_file) ==
    IF resolved_file.canonical_path \in seen
    THEN [seen |-> seen, files |-> files]
    ELSE [seen |-> seen \cup {resolved_file.canonical_path},
          files |-> Append(files, resolved_file)]

\* one turn of `for resolved_file in resolved_files_for_input`
AggregateFile ==
    /\ pc = "aggregate"
    /\ res_idx <= Len(all_resolutions)
    /\ all_resolutions[res_idx].kind = "Success"
    /\ file_idx <= Len(all_resolutions[res_idx].files)
    /\ LET r == InsertIfNew(seen_canonical_paths, final_ordered_files,
                            all_resolutions[res_idx].files[file_idx])
       IN  /\ seen_canonical_paths' = r.seen
           /\ final_ordered_files' = r.files
    /\ file_idx' = file_idx + 1
    /\ UNCHANGED <<fs, inputs, pc, all_resolutions, res_idx, path_does_not_exist_errors,
                   not_founds, ambiguities_found, invalid_glob_patterns, file_contexts,
                   skelVars, genVars>>

\* the Success arm's inner loop is over: on to the next resolution
AggregateSuccessDone ==
    /\ pc = "aggregate"
    /\ res_idx <= Len(all_resolutions)
    /\ all_resolutions[res_idx].kind = "Success"
    /\ file_idx > Len(all_resolutions[res_idx].files)
    /\ res_idx' = res_idx + 1
    /\ file_idx' = 1
    /\ UNCHANGED <<fs, inputs, pc, all_resolutions, final_ordered_files,
                   seen_canonical_paths, path_does_not_exist_errors, not_founds,
                   ambiguities_found, invalid_glob_patterns, file_contexts, skelVars, genVars>>

\* mutant of PushIf: the bucket keeps only the resolution pushed last
PushIfOverwrites(bucket, kind, wanted, idx) == IF kind = wanted THEN <<idx>> ELSE bucket

\* the bucket a resolution goes to; a bucket holds references into all_resolutions,
\* modelled as indices
PushIf(bucket, kind, wanted, idx) == IF kind = wanted THEN Append(bucket, idx) ELSE bucket

\* the four failure arms of the match
AggregateFailure ==
    /\ pc = "aggregate"
    /\ res_idx <= Len(all_resolutions)
    /\ all_resolutions[res_idx].kind # "Success"
    /\ LET kind == all_resolutions[res_idx].kind
       IN  /\ ambiguities_found' = PushIf(ambiguities_found, kind, "Ambiguous", res_idx)
           /\ not_founds' = PushIf(not_founds, kind, "NotFound", res_idx)
           /\ path_does_not_exist_errors' =
                  PushIf(path_does_not_exist_errors, kind, "PathDoesNotExist", res_idx)
           /\ invalid_glob_patterns' =
                  PushIf(invalid_glob_patterns, kind, "InvalidGlobPattern", res_idx)
    /\ res_idx' = res_idx + 1
    /\ file_idx' = 1
    /\ UNCHANGED <<fs, inputs, pc, all_resolutions, final_ordered_files,
                   seen_canonical_paths, file_contexts, skelVars, genVars>>

\* mutant of has_errors: the not-found bucket is not looked at
has_errors_but_not_found ==
    \/ path_does_not_exist_errors # <<>>
    \/ ambiguities_found # <<>>
    \/ invalid_glob_patterns # <<>>

has_errors ==
    \/ path_does_not_exist_errors # <<>>
    \/ not_founds # <<>>
    \/ ambiguities_found # <<>>
    \/ invalid_glob_patterns # <<>>

\* mutant of CheckErrors: an empty file list goes on to context generation
CheckErrorsIgnoresEmptyList ==
    /\ pc = "aggregate"
    /\ res_idx > Len(all_resolutions)
    /\ pc' = IF has_errors THEN "exit_errors" ELSE "generate"
    /\ UNCHANGED <<fs, inputs, all_resolutions, aggVars, file_contexts, skelVars, genVars>>

\* after the loop: report and exit(1), or warn and exit(1), or go on
CheckErrors ==
    /\ pc = "aggregate"
    /\ res_idx > Len(all_resolutions)
    /\ pc' = IF has_errors THEN "exit_errors"
             ELSE IF final_ordered_files = <<>> THEN "exit_no_files"
             ELSE "generate"
    /\ UNCHANGED <<fs, inputs, all_resolutions, aggVars, file_contexts, skelVars, genVars>>

\* the extensions a grammar is loaded for
SupportedExtensions == {<<"r", "s">>, <<"p", "y">>, <<"t", "s">>}

\* the extensions a caller passes: "" stands for a path without extension
Extensions == SupportedExtensions \cup {<<"m", "d">>, <<>>}

\* Path::extension(..).unwrap_or(""): what follows the last dot of the file name, a
\* leading dot apart
Extension(display_path) ==
    LET name == IF display_path = <<>> THEN <<>> ELSE display_path[Len(display_path)]
        dots == {i \in 2..Len(name) : name[i] = "."}
    IN  IF dots = {} THEN <<>>
        ELSE SubSeq(name, (CHOOSE i \in dots : \A j \in dots : j <= i) + 1, Len(name))

\* symbol_extractor::create_skeleton_by_depth, by extension only: an extension other
\* than rs, py and ts is Err
SkeletonOf(content, extension, depth) ==
    IF extension \in SupportedExtensions
    THEN [ok |-> TRUE, text |-> [skeleton_of |-> content, depth |-> depth]]
    ELSE [ok |-> FALSE]

\* the content of one FileContext
FinalContent(resolved_file, depth, unreadable) ==
    IF resolved_file.canonical_path \in unreadable
    THEN [read_error |-> resolved_file.display_path]
    ELSE LET content == [text_of |-> resolved_file.canonical_path]
         IN  IF depth = None THEN content
             ELSE LET symbols == SkeletonOf(content, Extension(resolved_file.display_path),
                                            depth[1])
                  IN  IF symbols.ok THEN symbols.text
                      ELSE [extract_error |-> resolved_file.display_path,
                            fallback |-> content]

\* generate_file_contexts(files, depth); unreadable: the files read_to_string fails on
generate_file_contexts(files, depth, unreadable) ==
    [i \in 1..Len(files) |->
        [display_path |-> files[i].display_path,
         content |-> FinalContent(files[i], depth, unreadable)]]

\* the contexts are built and the Markdown goes to the clipboard or to stdout
GenerateContexts ==
    /\ pc = "generate"
    /\ \E depth \in DepthChoices :
       \E unreadable \in SUBSET seen_canonical_paths :
          file_contexts' = generate_file_contexts(final_ordered_files, depth, unreadable)
    /\ pc' = "done"
    /\ UNCHANGED <<fs, inputs, all_resolutions, aggVars, skelVars, genVars>>

MainNext ==
    \/ ResolveInput
    \/ AggregateFile
    \/ AggregateSuccessDone
    \/ AggregateFailure
    \/ CheckErrors
    \/ GenerateContexts

Init == MainInit /\ SkelIdle /\ GenIdle

Next == MainNext

Spec == Init /\ [][Next]_vars

(***************************************************************************)
(* Aggregation (main.rs)                                                   *)
(***************************************************************************)
\* the aggregation loop has run to its end
AggregationOver ==
    \/ pc = "aggregate" /\ res_idx > Len(all_resolutions)
    \/ pc \in {"exit_errors", "exit_no_files", "generate", "done"}

\* the run has ended in failure: std::process::exit(1)
Failed == pc \in {"exit_errors", "exit_no_files"}

RECURSIVE SuccessFilesUpTo(_)
\* the files of the Success resolutions 1..n, in token order
SuccessFilesUpTo(n) ==
    IF n = 0 THEN <<>>
    ELSE SuccessFilesUpTo(n - 1)
         \o (IF all_resolutions[n].kind = "Success" THEN all_resolutions[n].files ELSE <<>>)

\* the files the loop has gone through so far
FilesProcessed ==
    IF pc = "resolve" THEN <<>>
    ELSE IF res_idx > Len(all_resolutions) THEN SuccessFilesUpTo(Len(all_resolutions))
    ELSE SuccessFilesUpTo(res_idx - 1)
         \o (IF all_resolutions[res_idx].kind = "Success"
             THEN SubSeq(all_resolutions[res_idx].files, 1, file_idx - 1)
             ELSE <<>>)

\* files[i] is the first of the list with its canonical path
IsFirstOccurrence(files, i) ==
    \A j \in 1..(i - 1) : files[j].canonical_path # files[i].canonical_path

RECURSIVE FirstOccurrencesFrom(_, _)
FirstOccurrencesFrom(files, i) ==
    IF i > Len(files) THEN <<>>
    ELSE (IF IsFirstOccurrence(files, i) THEN <<files[i]>> ELSE <<>>)
         \o FirstOccurrencesFrom(files, i + 1)

\* a list with every occurrence of a canonical path after its first removed
FirstOccurrences(files) == FirstOccurrencesFrom(files, 1)

\* some canonical path occurs twice in the list
HasRepeat(files) ==
    \E i, j \in DOMAIN files : i < j /\ files[i].canonical_path = files[j].canonical_path

\* C1: at every step of the aggregation loop and at its end, final_ordered_files
\* holds no two entries with the same canonical path.
C1_NoDuplicateCanonicalPath ==
    \A i, j \in DOMAIN final_ordered_files :
        i # j => final_ordered_files[i].canonical_path # final_ordered_files[j].canonical_path

\* C1 witness: the loop is over; one Success held the same canonical file twice, and
\* a later Success held it again.
C1_Witness ==
    /\ AggregationOver
    /\ Len(all_resolutions) = 2
    /\ all_resolutions[1].kind = "Success"
    /\ all_resolutions[2].kind = "Success"
    /\ HasRepeat(all_resolutions[1].files)
    /\ \E a \in DOMAIN all_resolutions[1].files, b \in DOMAIN all_resolutions[2].files :
          all_resolutions[1].files[a].canonical_path
              = all_resolutions[2].files[b].canonical_path
    /\ final_ordered_files # <<>>

\* C2: the aggregated list is the concatenation of the Success file lists, in token
\* order and in each list's order, with every occurrence of a canonical path after
\* its first removed; this holds of the part gone through at every step of the loop.
C2_FirstOccurrenceOrder ==
    final_ordered_files = FirstOccurrences(FilesProcessed)

\* C2 witness: the loop is over, a file of the second token was already in the list
\* and another one was added after the first token's.
C2_Witness ==
    /\ AggregationOver
    /\ Len(all_resolutions) = 2
    /\ all_resolutions[1].kind = "Success"
    /\ all_resolutions[2].kind = "Success"
    /\ Len(final_ordered_files) >= 2
    /\ Len(FilesProcessed) > Len(final_ordered_files)
    /\ final_ordered_files[1] = all_resolutions[1].files[1]
    /\ all_resolutions[2].files[1] # final_ordered_files[1]

\* some token resolved to something other than Success
SomeFailure == \E i \in DOMAIN all_resolutions : all_resolutions[i].kind # "Success"

\* C3: once a token has resolved to a non-Success outcome the run never reaches
\* context generation or output, and when the loop is over it ends failed, however
\* many tokens resolved.
C3_AnyFailureFailsRun ==
    SomeFailure =>
        /\ pc \notin {"generate", "done"}
        /\ pc \notin {"resolve", "aggregate"} => pc = "exit_errors"

\* C3 witness: the first token resolved to a file, the second to NotFound; the run
\* failed with exactly one NotFound and one resolved file.
C3_Witness ==
    /\ pc = "exit_errors"
    /\ Len(all_resolutions) = 2
    /\ all_resolutions[1].kind = "Success"
    /\ all_resolutions[2].kind = "NotFound"
    /\ Len(not_founds) = 1
    /\ Len(final_ordered_files) = 1
    /\ ambiguities_found = <<>>
    /\ path_does_not_exist_errors = <<>>

\* the positions of the resolutions of a kind, in token order
IndicesOfKind(kind) ==
    LET IsKind(i) == all_resolutions[i].kind = kind
    IN  SelectSeq([i \in 1..Len(all_resolutions) |-> i], IsKind)

FailureKinds == {"Ambiguous", "NotFound", "PathDoesNotExist", "InvalidGlobPattern"}

\* C4: every token is resolved before a failure is reported, and when the loop is
\* over each bucket holds exactly the resolutions of its kind, in token order: a
\* failing resolution is in one bucket, its own, and the buckets hold as many entries
\* as tokens failed.
C4_AllFailuresBucketed ==
    /\ pc # "resolve" => Len(all_resolutions) = Len(inputs)
    /\ \A i \in DOMAIN all_resolutions :
          all_resolutions[i].kind \in FailureKinds \cup {"Success"}
    /\ AggregationOver =>
          /\ ambiguities_found = IndicesOfKind("Ambiguous")
          /\ not_founds = IndicesOfKind("NotFound")
          /\ path_does_not_exist_errors = IndicesOfKind("PathDoesNotExist")
          /\ invalid_glob_patterns = IndicesOfKind("InvalidGlobPattern")
          /\ Len(ambiguities_found) + Len(not_founds) + Len(path_does_not_exist_errors)
                + Len(invalid_glob_patterns)
             = Cardinality({i \in DOMAIN all_resolutions :
                               all_resolutions[i].kind # "Success"})

\* C4 witness: both tokens failed, the same way, and both are reported.
C4_Witness ==
    /\ pc = "exit_errors"
    /\ Len(all_resolutions) = 2
    /\ all_resolutions[1].kind # "Success"
    /\ all_resolutions[2].kind = all_resolutions[1].kind
    /\ Len(ambiguities_found) + Len(not_founds) + Len(path_does_not_exist_errors) = 2

(***************************************************************************)
(* Resolution (file_resolver.rs)                                           *)
(***************************************************************************)
\* the i-th token has been resolved
Resolved(i) == i \in DOMAIN all_resolutions

\* the paths below the working directory that are regular files (links followed)
FilesUnderWorkingDir ==
    { p \in DOMAIN fs.kind :
        /\ Len(p) > Len(working_dir)
        /\ SubSeq(p, 1, Len(working_dir)) = working_dir
        /\ Stat(fs, p) = "file" }

FileName(p) == p[Len(p)]

\* C5: a token that names an existing regular file that canonicalizes resolves to
\* Success with exactly one ResolvedFile, whose canonical path is the canonicalized
\* input path, whatever other file names contain the token.
C5_ExistingFileResolvesToItself ==
    \A i \in DOMAIN all_resolutions :
        LET canonical == canonicalize(fs, Join(working_dir, inputs[i]))
        IN  (PathStat(fs, inputs[i]) = "file" /\ canonical.ok) =>
                /\ all_resolutions[i].kind = "Success"
                /\ Len(all_resolutions[i].files) = 1
                /\ all_resolutions[i].files[1].canonical_path = canonical.path

\* C5 witness: the token ab names the file /w/ab while d/ab, whose name contains the
\* token too, exists; and the token has been resolved to /w/ab.
C5_Witness ==
    /\ Resolved(1)
    /\ inputs[1] = nAB
    /\ Stat(fs, pAB) = "file"
    /\ Stat(fs, pDAB) = "file"
    /\ all_resolutions[1] = Success(<<ResolvedFile(<<nAB>>, pAB)>>)

\* the token has one of the glob metacharacters * ? [ {
GlobShaped(input_str) ==
    \E i \in DOMAIN input_str : input_str[i] \in {"*", "?", "[", "{"}

RECURSIVE GlobMatchesFrom(_, _, _, _)
GlobMatchesFrom(pattern, i, str, j) ==
    IF i > Len(pattern) THEN j > Len(str)
    ELSE IF pattern[i] = "*"
    THEN \/ GlobMatchesFrom(pattern, i + 1, str, j)
         \/ /\ j <= Len(str)
            /\ str[j] # MAIN_SEPARATOR
            /\ GlobMatchesFrom(pattern, i, str, j + 1)
    ELSE IF pattern[i] = "?"
    THEN /\ j <= Len(str)
         /\ str[j] # MAIN_SEPARATOR
         /\ GlobMatchesFrom(pattern, i + 1, str, j + 1)
    ELSE /\ j <= Len(str)
         /\ str[j] = pattern[i]
         /\ GlobMatchesFrom(pattern, i + 1, str, j + 1)

\* a glob pattern of literal characters, * and ? matches a path string; neither
\* wildcard matches a separator
GlobMatches(pattern, str) == GlobMatchesFrom(pattern, 1, str, 1)

RECURSIVE PathString(_)
\* a relative path as a string
PathString(rel) ==
    IF rel = <<>> THEN <<>>
    ELSE IF Len(rel) = 1 THEN rel[1]
    ELSE rel[1] \o <<MAIN_SEPARATOR>> \o PathString(Tail(rel))

\* the files under the working directory a pattern, anchored there, matches
GlobMatchedFiles(pattern) ==
    { p \in FilesUnderWorkingDir : GlobMatches(pattern, PathString(diff_paths(p, working_dir))) }

\* C6 (the claim as stated; the code violates it): a glob-shaped token that matches
\* two or more files is never resolved to Ambiguous.
C6_GlobNeverAmbiguous ==
    \A i \in DOMAIN all_resolutions :
        (GlobShaped(inputs[i]) /\ Cardinality(GlobMatchedFiles(inputs[i])) >= 2) =>
            all_resolutions[i].kind # "Ambiguous"

\* C7 (the claim as stated; the code violates it): a glob-shaped token that is not an
\* existing path resolves to Success with the files the pattern matches when there
\* are any, and to NotFound when there are none.
C7_GlobResolvesToMatches ==
    \A i \in DOMAIN all_resolutions :
        (GlobShaped(inputs[i]) /\ PathStat(fs, inputs[i]) = "none") =>
            IF GlobMatchedFiles(inputs[i]) # {}
            THEN /\ all_resolutions[i].kind = "Success"
                 /\ { all_resolutions[i].files[k].canonical_path :
                        k \in DOMAIN all_resolutions[i].files }
                    = { canonicalize(fs, p).path :
                          p \in { q \in GlobMatchedFiles(inputs[i]) : canonicalize(fs, q).ok } }
            ELSE all_resolutions[i].kind = "NotFound"

\* the files the search of step 3 keeps for a token: those named exactly like the
\* token when there are any, else those whose name contains it
SearchCandidates(input_str) ==
    LET exact == { p \in FilesUnderWorkingDir : FileName(p) = input_str }
        partial == { p \in FilesUnderWorkingDir : Contains(FileName(p), input_str) }
    IN  IF exact # {} THEN exact ELSE partial

\* the token is neither an existing file or directory nor a missing path
Searched(input_str) ==
    /\ PathStat(fs, input_str) \notin {"file", "dir"}
    /\ PathStat(fs, input_str) = "none" => ~LooksLikePath(input_str)

\* C8: when the search for a token keeps two or more distinct files, the token
\* resolves to Ambiguous carrying the token and the display paths of all of them,
\* and none of them is picked.
C8_SeveralCandidatesAreAmbiguous ==
    \A i \in DOMAIN all_resolutions :
        (Searched(inputs[i]) /\ Cardinality(SearchCandidates(inputs[i])) >= 2) =>
            /\ all_resolutions[i].kind = "Ambiguous"
            /\ all_resolutions[i].input_string = inputs[i]
            /\ Len(all_resolutions[i].conflicting_paths)
                  = Cardinality(SearchCandidates(inputs[i]))
            /\ Range(all_resolutions[i].conflicting_paths)
                  = { diff_paths(p, working_dir) : p \in SearchCandidates(inputs[i]) }

\* C8 witness: the token a, with the files ab and d/ab whose names contain it,
\* resolved to Ambiguous listing both.
C8_Witness ==
    /\ Resolved(1)
    /\ inputs[1] = nA
    /\ SearchCandidates(nA) = {pAB, pDAB}
    /\ all_resolutions[1] = Ambiguous(nA, << <<nAB>>, <<nD, nAB>> >>)

\* C9: the same token resolved twice in a run, against the same filesystem, gives
\* identical resolutions, whatever order the directory listings came back in each
\* time and whatever was resolved in between.
C9_ResolutionIsDeterministic ==
    \A i, j \in DOMAIN all_resolutions :
        inputs[i] = inputs[j] => all_resolutions[i] = all_resolutions[j]

\* C9 witness: a token was resolved twice by the search, which found several files.
C9_Witness ==
    /\ Len(all_resolutions) = 2
    /\ inputs[1] = inputs[2]
    /\ all_resolutions[1].kind = "Ambiguous"
    /\ Len(all_resolutions[2].conflicting_paths) >= 3

(***************************************************************************)
(* symbol_extractor.rs                                                     *)
(*                                                                         *)
(* A syntax tree is the list of its nodes' depths in pre-order: node 1 is  *)
(* the root, at depth 0, and each node is at most one level below the node *)
(* before it.                                                              *)
(***************************************************************************)
RECURSIVE TreesOfSize(_)
\* the trees of n nodes
TreesOfSize(n) ==
    IF n = 1 THEN { <<0>> }
    ELSE UNION { { Append(t, d) : d \in 1..(t[n - 1] + 1) } : t \in TreesOfSize(n - 1) }

\* the trees parser.parse can return
Trees == UNION { TreesOfSize(n) : n \in 1..MaxNodes }

\* Node::child_count() = 0
IsLeaf(t, node) == node = Len(t) \/ t[node + 1] <= t[node]

\* the last node of the subtree of a node
RECURSIVE SubtreeEnd(_, _, _)
SubtreeEnd(t, node, k) ==
    IF k < Len(t) /\ t[k + 1] > t[node] THEN SubtreeEnd(t, node, k + 1) ELSE k

\* Node::children: the nodes one level below, left to right
Children(t, node) ==
    LET IsChild(k) == t[k] = t[node] + 1
    IN  SelectSeq([k \in 1..(SubtreeEnd(t, node, node) - node) |-> node + k], IsChild)

\* the texts a leaf can cover: a token, a token after white space, white space only
LeafTexts == << <<"x">>, <<" ", "y">>, <<" ">> >>

\* Node::utf8_text(source_bytes)
utf8_text(node, shift) == LeafTexts[((node + shift) % Len(LeafTexts)) + 1]

RECURSIVE TrimStart(_)
TrimStart(str) == IF str # <<>> /\ Head(str) = " " THEN TrimStart(Tail(str)) ELSE str

RECURSIVE TrimEnd(_)
TrimEnd(str) ==
    IF str # <<>> /\ str[Len(str)] = " " THEN TrimEnd(SubSeq(str, 1, Len(str) - 1)) ELSE str

\* str::trim
Trim(str) == TrimEnd(TrimStart(str))

\* mutant of JoinWithSpace: the tokens are joined without a separator
JoinWithoutSpace(strs) == FlattenSeq(strs)

RECURSIVE JoinWithSpace(_)
\* tokens.join(" ")
JoinWithSpace(strs) ==
    IF strs = <<>> THEN <<>>
    ELSE IF Len(strs) = 1 THEN strs[1]
    ELSE strs[1] \o <<" ">> \o JoinWithSpace(Tail(strs))

NoStructureFound == <<"(No structure found)">>

Ok(value) == [ok |-> TRUE, value |-> value]

Err(message) == [ok |-> FALSE, error |-> message]

Running == [ok |-> FALSE, error |-> "not returned"]

MainIdle ==
    /\ fs = [kind |-> BaseEntries, uncanon |-> {}]
    /\ inputs = <<>>
    /\ pc = "idle"
    /\ all_resolutions = <<>>
    /\ res_idx = 1
    /\ file_idx = 1
    /\ final_ordered_files = <<>>
    /\ seen_canonical_paths = {}
    /\ path_does_not_exist_errors = <<>>
    /\ not_founds = <<>>
    /\ ambiguities_found = <<>>
    /\ invalid_glob_patterns = <<>>
    /\ file_contexts = <<>>

\* create_skeleton_by_depth is called
SkelInit ==
    /\ sk_pc = "start"
    /\ file_extension \in Extensions
    /\ max_depth \in 0..MaxSkelDepth
    /\ parse_ok \in BOOLEAN
    /\ tree \in Trees
    /\ source_shift \in 0..(Len(LeafTexts) - 1)
    /\ stack = <<>>
    /\ tokens = <<>>
    /\ visited = {}
    /\ skeleton = Running

Frame(node, current_depth) == [node |-> node, current_depth |-> current_depth]

\* language loading and parsing; then the walk is started at the root
LoadAndParse ==
    /\ sk_pc = "start"
    /\ IF file_extension \notin SupportedExtensions
       THEN /\ skeleton' = Err("Language support not configured")
            /\ sk_pc' = "returned"
            /\ stack' = stack
       ELSE IF ~parse_ok
       THEN /\ skeleton' = Err("Failed to parse source code")
            /\ sk_pc' = "returned"
            /\ stack' = stack
       ELSE /\ skeleton' = skeleton
            /\ sk_pc' = "walk"
            /\ stack' = <<Frame(1, 0)>>
    /\ UNCHANGED <<file_extension, max_depth, parse_ok, tree, source_shift, tokens, visited,
                   mainVars, genVars>>

\* mutant of WalkLimit: the limit wraps around to 0 at the largest depth
WalkLimitWraps(depth) == (depth + 1) % (MaxSkelDepth + 1)

\* mutant of WalkLimit: the walk is given max_depth itself
WalkLimitIsMaxDepth(depth) == depth

\* the max_depth create_skeleton_by_depth gives collect_tokens_at_depth
WalkLimit(depth) == depth + 1

\* collect_tokens_at_depth's base case
ExceedsDepth(current_depth, limit) == current_depth > limit

\* the token a leaf adds, if any
LeafToken(node, shift) ==
    LET trimmed_text == Trim(utf8_text(node, shift))
    IN  IF trimmed_text # <<>> THEN <<trimmed_text>> ELSE <<>>

\* one call of collect_tokens_at_depth: the call on top of the stack returns at once,
\* or records its leaf, or calls itself on each child
CollectTokens ==
    /\ sk_pc = "walk"
    /\ stack # <<>>
    /\ LET node == Head(stack).node
           current_depth == Head(stack).current_depth
           kids == Children(tree, node)
       IN  IF ExceedsDepth(current_depth, WalkLimit(max_depth))
           THEN /\ stack' = Tail(stack)
                /\ UNCHANGED <<tokens, visited>>
           ELSE /\ visited' = visited \cup {node}
                /\ IF Len(kids) = 0
                   THEN /\ tokens' = tokens \o LeafToken(node, source_shift)
                        /\ stack' = Tail(stack)
                   ELSE /\ tokens' = tokens
                        /\ stack' = [k \in 1..Len(kids) |-> Frame(kids[k], current_depth + 1)]
                                    \o Tail(stack)
    /\ UNCHANGED <<sk_pc, file_extension, max_depth, parse_ok, tree, source_shift, skeleton,
                   mainVars, genVars>>

\* the walk is over: the sentinel, or the tokens joined
ReturnSkeleton ==
    /\ sk_pc = "walk"
    /\ stack = <<>>
    /\ skeleton' = IF tokens = <<>> THEN Ok(NoStructureFound) ELSE Ok(JoinWithSpace(tokens))
    /\ sk_pc' = "returned"
    /\ UNCHANGED <<file_extension, max_depth, parse_ok, tree, source_shift, stack, tokens,
                   visited, mainVars, genVars>>

SkelNext ==
    \/ LoadAndParse
    \/ CollectTokens
    \/ ReturnSkeleton

InitSkel == SkelInit /\ MainIdle /\ GenIdle

SpecSkel == InitSkel /\ [][SkelNext]_vars

RECURSIVE LeafTokensFrom(_, _, _, _)
LeafTokensFrom(t, shift, limit, node) ==
    IF node > Len(t) THEN <<>>
    ELSE (IF IsLeaf(t, node) /\ t[node] <= limit THEN LeafToken(node, shift) ELSE <<>>)
         \o LeafTokensFrom(t, shift, limit, node + 1)

\* the non-empty trimmed texts of the leaves at depth <= limit, left to right
LeafTokensWithin(t, shift, limit) == LeafTokensFrom(t, shift, limit, 1)

\* the walk has returned its tokens
WalkReturned == sk_pc = "returned" /\ skeleton.ok

RECURSIVE collect_tokens_at_depth(_, _, _, _, _)
RECURSIVE collect_tokens_of_children(_, _, _, _, _)
\* collect_tokens_at_depth, as the recursive function it is: the tokens one call adds
collect_tokens_at_depth(t, shift, node, current_depth, limit) ==
    IF ExceedsDepth(current_depth, limit) THEN <<>>
    ELSE IF Len(Children(t, node)) = 0 THEN LeafToken(node, shift)
    ELSE collect_tokens_of_children(t, shift, Children(t, node), current_depth + 1, limit)

\* the loop over node.children
collect_tokens_of_children(t, shift, kids, current_depth, limit) ==
    IF kids = <<>> THEN <<>>
    ELSE collect_tokens_at_depth(t, shift, Head(kids), current_depth, limit)
         \o collect_tokens_of_children(t, shift, Tail(kids), current_depth, limit)

\* the tokens create_skeleton_by_depth collects for a tree at a max_depth
skeleton_tokens(t, shift, depth) == collect_tokens_at_depth(t, shift, 1, 0, WalkLimit(depth))

RECURSIVE IsSubsequence(_, _)
\* s is t with some elements left out
IsSubsequence(s, t) ==
    IF s = <<>> THEN TRUE
    ELSE IF t = <<>> THEN FALSE
    ELSE IF Head(s) = Head(t) THEN IsSubsequence(Tail(s), Tail(t))
    ELSE IsSubsequence(s, Tail(t))

\* C11: for one tree, the tokens of a walk at a smaller max_depth are a subsequence
\* of the tokens of a walk at a larger one, so that a larger max_depth never gives
\* fewer tokens: the tokens a walk has returned contain those of every smaller depth
\* and are contained in those of every larger depth.
C11_DeeperWalkKeepsTokens ==
    WalkReturned =>
        \A d \in 0..MaxSkelDepth :
            LET others == skeleton_tokens(tree, source_shift, d)
            IN  /\ d <= max_depth => IsSubsequence(others, tokens) /\ Len(others) <= Len(tokens)
                /\ d >= max_depth => IsSubsequence(tokens, others) /\ Len(tokens) <= Len(others)

\* C11 witness: a walk at max_depth 1 has returned more tokens than a walk of the same
\* tree at max_depth 0 gives, and fewer than a walk at max_depth 2 gives.
C11_Witness ==
    /\ WalkReturned
    /\ max_depth = 1
    /\ Len(skeleton_tokens(tree, source_shift, 0)) < Len(tokens)
    /\ Len(tokens) < Len(skeleton_tokens(tree, source_shift, 2))

RECURSIVE SplitAtSpaces(_, _)
\* the pieces of a string between its spaces; cur is the piece being read
SplitAtSpaces(str, cur) ==
    IF str = <<>> THEN <<cur>>
    ELSE IF Head(str) = " " THEN <<cur>> \o SplitAtSpaces(Tail(str), <<>>)
    ELSE SplitAtSpaces(Tail(str), Append(cur, Head(str)))

\* C12: for a supported extension and a source that parses, create_skeleton_by_depth
\* returns a non-empty string: the sentinel "(No structure found)" when the walk gives
\* no token, and otherwise the tokens of the leaves within the walk's depth, left to
\* right, with exactly one space between two tokens.
C12_SkeletonNeverEmpty ==
    sk_pc = "returned" /\ file_extension \in SupportedExtensions /\ parse_ok =>
        LET expected == LeafTokensWithin(tree, source_shift, max_depth + 1)
        IN  /\ skeleton.ok
            /\ skeleton.value # <<>>
            /\ expected = <<>> => skeleton.value = NoStructureFound
            /\ expected # <<>> => SplitAtSpaces(skeleton.value, <<>>) = expected

\* C12 witness: a walk that reached a leaf has returned the sentinel, the leaf's text
\* being white space only.
C12_Witness ==
    /\ WalkReturned
    /\ \E node \in visited : IsLeaf(tree, node) /\ utf8_text(node, source_shift) # <<>>
    /\ tokens = <<>>
    /\ skeleton.value = NoStructureFound

(***************************************************************************)
(* generate_file_contexts (main.rs), one loop turn at a time, with the     *)
(* call of create_skeleton_by_depth it makes in skeleton mode.             *)
(***************************************************************************)
MaxGenNodes == 3

nMainRs  == <<"m", ".", "r", "s">>
nNotesMd == <<"n", ".", "m", "d">>

\* the files the loop is run on: a Rust source, a Markdown file, a file without extension
GenFiles ==
    { ResolvedFile(<<nMainRs>>, <<nW, nMainRs>>),
      ResolvedFile(<<nNotesMd>>, <<nW, nNotesMd>>),
      ResolvedFile(<<nAB>>, pAB) }

\* final_ordered_files as main passes it: not empty, no file twice
GenFileLists ==
    { <<f>> : f \in GenFiles }
        \cup { pair \in GenFiles \X GenFiles : pair[1] # pair[2] }

\* the trees parser.parse returns for the files read
GenTrees == UNION { TreesOfSize(n) : n \in 1..MaxGenNodes }

FileContext(display_path, content) == [display_path |-> display_path, content |-> content]

\* the text read_to_string returns for a file
FileText(resolved_file) == [text_of |-> resolved_file.canonical_path]

\* the Err arm of `match file_content_result`
ReadErrorContent(display_path) == [read_error |-> display_path]

\* the Ok arm of the match on create_skeleton_by_depth
SkeletonContent(symbols) == [skeleton |-> symbols]

\* mutant of FallbackContent: the message without the file's text
FallbackErrorOnly(display_path, e, content) ==
    [extract_error |-> display_path, message |-> e]

\* the Err arm of the match on create_skeleton_by_depth: the message, then the content
FallbackContent(display_path, e, content) ==
    [extract_error |-> display_path, message |-> e, fallback |-> content]

\* mutant of PushContext: a file that could not be read gets no context
PushUnlessReadError(ctxs, display_path, final_content) ==
    IF "read_error" \in DOMAIN final_content THEN ctxs
    ELSE Append(ctxs, FileContext(display_path, final_content))

\* contexts.push(FileContext { display_path, content: final_content })
PushContext(ctxs, display_path, final_content) ==
    Append(ctxs, FileContext(display_path, final_content))

\* generate_file_contexts is called
GenInit ==
    /\ gen_pc = "loop"
    /\ gen_files \in GenFileLists
    /\ cli_depth \in DepthChoices
    /\ gen_idx = 1
    /\ read_failed = {}
    /\ extract_failed = {}
    /\ contexts = <<>>

\* one loop turn up to its push or, in skeleton mode, up to the call of
\* create_skeleton_by_depth on the content read
ReadFile ==
    /\ gen_pc = "loop"
    /\ gen_idx <= Len(gen_files)
    /\ LET resolved_file == gen_files[gen_idx]
           display_path == resolved_file.display_path
       IN  \E read_ok \in BOOLEAN :
              IF ~read_ok
              THEN /\ contexts' = PushContext(contexts, display_path,
                                              ReadErrorContent(display_path))
                   /\ read_failed' = read_failed \cup {gen_idx}
                   /\ gen_idx' = gen_idx + 1
                   /\ UNCHANGED <<gen_pc, skelVars>>
              ELSE IF cli_depth = None
              THEN /\ contexts' = PushContext(contexts, display_path, FileText(resolved_file))
                   /\ gen_idx' = gen_idx + 1
                   /\ UNCHANGED <<gen_pc, read_failed, skelVars>>
              ELSE /\ gen_pc' = "extract"
                   /\ sk_pc' = "start"
                   /\ file_extension' = Extension(display_path)
                   /\ max_depth' = cli_depth[1]
                   /\ parse_ok' \in BOOLEAN
                   /\ tree' \in GenTrees
                   /\ source_shift' \in 0..(Len(LeafTexts) - 1)
                   /\ stack' = <<>>
                   /\ tokens' = <<>>
                   /\ visited' = {}
                   /\ skeleton' = Running
                   /\ UNCHANGED <<contexts, gen_idx, read_failed>>
    /\ UNCHANGED <<gen_files, cli_depth, extract_failed, mainVars>>

\* create_skeleton_by_depth has returned: the rest of the loop turn
PushSkeletonContext ==
    /\ gen_pc = "extract"
    /\ sk_pc = "returned"
    /\ LET resolved_file == gen_files[gen_idx]
           display_path == resolved_file.display_path
           final_content ==
               IF skeleton.ok THEN SkeletonContent(skeleton.value)
               ELSE FallbackContent(display_path, skeleton.error, FileText(resolved_file))
       IN  contexts' = PushContext(contexts, display_path, final_content)
    /\ extract_failed' = IF skeleton.ok THEN extract_failed ELSE extract_failed \cup {gen_idx}
    /\ gen_idx' = gen_idx + 1
    /\ gen_pc' = "loop"
    /\ sk_pc' = "idle"
    /\ file_extension' = <<>>
    /\ max_depth' = 0
    /\ parse_ok' = TRUE
    /\ tree' = <<0>>
    /\ source_shift' = 0
    /\ stack' = <<>>
    /\ tokens' = <<>>
    /\ visited' = {}
    /\ skeleton' = [ok |-> FALSE]
    /\ UNCHANGED <<gen_files, cli_depth, read_failed, mainVars>>

\* the loop is over: contexts is returned
GenReturn ==
    /\ gen_pc = "loop"
    /\ gen_idx > Len(gen_files)
    /\ gen_pc' = "returned"
    /\ UNCHANGED <<gen_files, cli_depth, gen_idx, read_failed, extract_failed, contexts,
                   mainVars, skelVars>>

GenNext ==
    \/ ReadFile
    \/ LoadAndParse
    \/ CollectTokens
    \/ ReturnSkeleton
    \/ PushSkeletonContext
    \/ GenReturn

InitGen == GenInit /\ MainIdle /\ SkelIdle

SpecGen == InitGen /\ [][GenNext]_vars

\* the contexts built so far are those of the first files, one each, in order
OneContextPerFile ==
    /\ Len(contexts) = gen_idx - 1
    /\ \A i \in DOMAIN contexts : contexts[i].display_path = gen_files[i].display_path
    /\ gen_pc = "returned" => Len(contexts) = Len(gen_files)

\* C13: in skeleton mode, for a file whose extension is not rs, py or ts, or whose
\* source does not parse, the extractor returns an error and has collected no token
\* (it did not start the walk); the loop then still pushes a FileContext for the file,
\* whose content holds the file's full text; and the loop goes on: every file, the
\* later ones included, has its context, in order.
C13_ExtractionFailureFallsBack ==
    /\ gen_pc = "extract" /\ sk_pc = "returned"
          /\ (file_extension \notin SupportedExtensions \/ ~parse_ok)
          => ~skeleton.ok /\ tokens = <<>> /\ visited = {}
    /\ \A i \in extract_failed :
          /\ i \in DOMAIN contexts
          /\ "fallback" \in DOMAIN contexts[i].content
          /\ contexts[i].content.fallback = FileText(gen_files[i])
    /\ \A i \in DOMAIN contexts :
          (/\ cli_depth # None
           /\ i \notin read_failed
           /\ Extension(gen_files[i].display_path) \notin SupportedExtensions)
          => i \in extract_failed
    /\ OneContextPerFile

\* C13 witness: the loop has returned in skeleton mode; the first file, a Rust source,
\* did not parse, the second has an extension without grammar, and both have a context
\* with the file's text.
C13_Witness ==
    /\ gen_pc = "returned"
    /\ cli_depth # None
    /\ extract_failed = {1, 2}
    /\ Extension(gen_files[1].display_path) \in SupportedExtensions
    /\ Extension(gen_files[2].display_path) = <<"m", "d">>
    /\ \A i \in 1..2 : contexts[i].content.fallback = FileText(gen_files[i])

\* C18 (the claim as stated; the code does otherwise): a file whose read failed has
\* no FileContext, and the other files have theirs.
C18_UnreadableFileIsSkipped ==
    /\ \A i \in read_failed : \A k \in DOMAIN contexts :
          contexts[k].display_path # gen_files[i].display_path
    /\ gen_pc = "returned" => Len(contexts) = Len(gen_files) - Cardinality(read_failed)

\* C18, amended: a file whose read failed is not skipped: it has its FileContext, at
\* its place, whose content is the error message in place of the text; the loop goes
\* on and every file has exactly one context, in order, the files read without error
\* having a content that is no read error.
C18_UnreadableFileGetsErrorContext ==
    /\ \A i \in read_failed :
          /\ i \in DOMAIN contexts
          /\ contexts[i] = FileContext(gen_files[i].display_path,
                                       ReadErrorContent(gen_files[i].display_path))
    /\ \A i \in DOMAIN contexts :
          i \notin read_failed => "read_error" \notin DOMAIN contexts[i].content
    /\ OneContextPerFile

\* C18 witness: the loop has returned; the read of the first of two files failed, the
\* second was read, and both have a context.
C18_Witness ==
    /\ gen_pc = "returned"
    /\ Len(gen_files) = 2
    /\ read_failed = {1}
    /\ Len(contexts) = 2
    /\ "read_error" \in DOMAIN contexts[1].content
    /\ contexts[2].content = FileText(gen_files[2])

(***************************************************************************)
(* Resolution (file_resolver.rs): directories, the order of the steps, the *)
(* search by file name                                                     *)
(***************************************************************************)
\* the entries beneath a directory that are regular files (links followed)
FilesBeneath(dir) ==
    { p \in DOMAIN fs.kind :
        /\ Len(p) > Len(dir)
        /\ SubSeq(p, 1, Len(dir)) = dir
        /\ Stat(fs, p) = "file" }

RECURSIVE PathsInOrder(_)
\* the paths of a set in ascending order
PathsInOrder(S) ==
    IF S = {} THEN <<>>
    ELSE LET m == CHOOSE x \in S : \A y \in S \ {x} : PathLess(x, y)
         IN  <<m>> \o PathsInOrder(S \ {m})

\* C14: a token that names an existing directory resolves to Success with one
\* ResolvedFile for each regular file beneath the directory, at any depth, that
\* canonicalizes, and with nothing else: N entries when all N files canonicalize, the
\* empty list for an empty directory; the entries are in the ascending order of the
\* files' paths; a file that does not canonicalize is left out and the others stay.
C14_DirectoryResolvesToItsFiles ==
    \A i \in DOMAIN all_resolutions :
        PathStat(fs, inputs[i]) = "dir" =>
            LET beneath == FilesBeneath(path_to_check(inputs[i]))
                kept == PathsInOrder({ p \in beneath : canonicalize(fs, p).ok })
                files == all_resolutions[i].files
            IN  /\ all_resolutions[i].kind = "Success"
                /\ Len(files) = Len(kept)
                /\ (\A p \in beneath : canonicalize(fs, p).ok) =>
                       Len(files) = Cardinality(beneath)
                /\ \A k \in DOMAIN files :
                       LET canonical_path == canonicalize(fs, kept[k]).path
                       IN  files[k] = ResolvedFile(diff_paths(canonical_path, working_dir),
                                                   canonical_path)

\* C14 witness: the token d names a directory holding the file a and, in the
\* directory e, the file b; it resolved to these two files, in this order.
C14_Witness ==
    /\ Resolved(1)
    /\ inputs[1] = nD
    /\ FilesBeneath(pD) = {pDA, pDEB}
    /\ all_resolutions[1]
          = Success(<<ResolvedFile(<<nD, nA>>, pDA), ResolvedFile(<<nD, nE, nB>>, pDEB)>>)

\* C15 (the claim as stated; the code violates it): whenever the token, joined to the
\* working directory, names a path that exists, whatever kind of entry it is, the
\* direct match of step 1 decides the token and the search by file name does not run.
C15_ExistingPathIsDirectMatch ==
    \A i \in DOMAIN all_resolutions :
        PathStat(fs, inputs[i]) # "none" => ResolvePhase(fs, inputs[i]) \in {"file", "dir"}

\* the files whose relative path, as a string, contains the token
RelativePathMatches(input_str) ==
    { p \in FilesUnderWorkingDir :
        Contains(PathString(diff_paths(p, working_dir)), input_str) }

\* the files whose name contains the token
FileNameMatches(input_str) ==
    { p \in FilesUnderWorkingDir : Contains(FileName(p), input_str) }

\* the outcome of the search for a token when it keeps the set of candidates S
OutcomeOf(input_str, S, resolution) ==
    IF S = {} THEN resolution = NotFound(input_str)
    ELSE IF Cardinality(S) = 1
    THEN LET canonical == canonicalize(fs, CHOOSE p \in S : TRUE)
         IN  IF canonical.ok
             THEN resolution = Success(<<ResolvedFile(diff_paths(canonical.path, working_dir),
                                                      canonical.path)>>)
             ELSE resolution = NotFound(input_str)
    ELSE /\ resolution.kind = "Ambiguous"
         /\ resolution.input_string = input_str
         /\ Len(resolution.conflicting_paths) = Cardinality(S)
         /\ Range(resolution.conflicting_paths) = { diff_paths(p, working_dir) : p \in S }

\* C16 (the claim as stated; the code does otherwise): a token that contains a
\* separator, names no existing path and is a substring of the relative path of
\* exactly one regular file, which canonicalizes, resolves to Success with that file.
C16_SeparatorTokenMatchesRelativePath ==
    \A i \in DOMAIN all_resolutions :
        (/\ Contains(inputs[i], <<MAIN_SEPARATOR>>)
         /\ PathStat(fs, inputs[i]) = "none"
         /\ Cardinality(RelativePathMatches(inputs[i])) = 1
         /\ \A p \in RelativePathMatches(inputs[i]) : canonicalize(fs, p).ok)
        => /\ all_resolutions[i].kind = "Success"
           /\ \A p \in RelativePathMatches(inputs[i]) :
                 all_resolutions[i].files
                    = <<ResolvedFile(diff_paths(canonicalize(fs, p).path, working_dir),
                                     canonicalize(fs, p).path)>>

\* C16, amended: in the search a regular file is a match only by its file name: when
\* no file is named exactly like the token, the candidates are exactly the files
\* whose name contains the token, and the outcome follows from them; a file whose
\* relative path contains the token across a separator is no match. A token that
\* contains a separator and names no existing path is not searched for at all: it
\* resolves to PathDoesNotExist with the path tried.
C16_SearchMatchesFileNamesOnly ==
    \A i \in DOMAIN all_resolutions :
        /\ (Contains(inputs[i], <<MAIN_SEPARATOR>>) /\ PathStat(fs, inputs[i]) = "none") =>
               all_resolutions[i] = PathDoesNotExist(inputs[i], path_to_check(inputs[i]))
        /\ (/\ Searched(inputs[i])
            /\ \A p \in FilesUnderWorkingDir : FileName(p) # inputs[i]) =>
               OutcomeOf(inputs[i], FileNameMatches(inputs[i]), all_resolutions[i])

\* C16 witness: the token e/b names no path in the working directory, and is a
\* substring of the relative path d/e/b of a file and of no other; it resolved to
\* PathDoesNotExist with the path /w/e/b.
C16_Witness ==
    /\ Resolved(1)
    /\ inputs[1] = <<"e", "/", "b">>
    /\ RelativePathMatches(inputs[1]) = {pDEB}
    /\ all_resolutions[1] = PathDoesNotExist(inputs[1], <<nW, nE, nB>>)

\* C17: a token that names no existing path and for which the search has no
\* candidate resolves to PathDoesNotExist, carrying the token joined to the working
\* directory, when it contains a separator or has more than one component, and to
\* NotFound otherwise.
C17_NoMatchIsMissingPathOrNotFound ==
    \A i \in DOMAIN all_resolutions :
        (PathStat(fs, inputs[i]) = "none" /\ SearchCandidates(inputs[i]) = {}) =>
            IF Contains(inputs[i], <<MAIN_SEPARATOR>>) \/ ComponentCount(inputs[i]) > 1
            THEN all_resolutions[i]
                    = PathDoesNotExist(inputs[i], Join(working_dir, inputs[i]))
            ELSE all_resolutions[i] = NotFound(inputs[i])

\* C17 witness: of two tokens naming no existing path and matching no file name, the
\* first, d/ab, resolved to PathDoesNotExist with /w/d/ab and the second, without
\* separator, to NotFound.
C17_Witness ==
    /\ Len(all_resolutions) = 2
    /\ \A i \in 1..2 : PathStat(fs, inputs[i]) = "none" /\ SearchCandidates(inputs[i]) = {}
    /\ all_resolutions[1] = PathDoesNotExist(<<"d", "/", "a", "b">>, pDAB)
    /\ ~Contains(inputs[2], <<MAIN_SEPARATOR>>)
    /\ all_resolutions[2] = NotFound(inputs[2])

\* C19: every Ambiguous carries two candidate paths at least, in strictly ascending
\* order (so pairwise distinct); and a token for which the search keeps no candidate
\* or one is never Ambiguous.
C19_AmbiguousHasSeveralSortedPaths ==
    \A i \in DOMAIN all_resolutions :
        LET paths == all_resolutions[i].conflicting_paths
        IN  /\ all_resolutions[i].kind = "Ambiguous" =>
                  /\ Len(paths) >= 2
                  /\ \A a, b \in DOMAIN paths : a < b => PathLess(paths[a], paths[b])
            /\ Cardinality(SearchCandidates(inputs[i])) <= 1 =>
                  all_resolutions[i].kind # "Ambiguous"

\* C19 witness: the token a resolved to Ambiguous with the three files *a, ab and
\* d/ab, in ascending order.
C19_Witness ==
    /\ Resolved(1)
    /\ inputs[1] = nA
    /\ all_resolutions[1] = Ambiguous(nA, << <<nSA>>, <<nAB>>, <<nD, nAB>> >>)

\* the files named exactly like the token
ExactlyNamed(input_str) == { p \in FilesUnderWorkingDir : FileName(p) = input_str }

\* C20: when the search runs for a token and some file is named exactly like it, the
\* candidates are exactly the files so named: a single one gives Success with that
\* file (NotFound if it does not canonicalize), whatever other file names contain the
\* token, and several give Ambiguous with exactly those.
C20_ExactNameMatchesComeFirst ==
    \A i \in DOMAIN all_resolutions :
        (Searched(inputs[i]) /\ ExactlyNamed(inputs[i]) # {}) =>
            OutcomeOf(inputs[i], ExactlyNamed(inputs[i]), all_resolutions[i])

\* C20 witness: the token a, with the file d/a named like it and the files ab and d/ab
\* whose names contain it, resolved to d/a.
C20_Witness ==
    /\ Resolved(1)
    /\ inputs[1] = nA
    /\ ExactlyNamed(nA) = {pDA}
    /\ {pAB, pDAB} \subseteq FileNameMatches(nA)
    /\ all_resolutions[1] = Success(<<ResolvedFile(<<nD, nA>>, pDA)>>)

(***************************************************************************)
(* The way to context generation (main.rs)                                 *)
(***************************************************************************)
\* no failure bucket holds an entry
AllBucketsEmpty ==
    /\ path_does_not_exist_errors = <<>>
    /\ not_founds = <<>>
    /\ ambiguities_found = <<>>
    /\ invalid_glob_patterns = <<>>

\* main is past the two tests that follow the aggregation
PastCheckErrors == pc \in {"exit_errors", "exit_no_files", "generate", "done"}

\* C21: the run reaches context generation and output only when the four failure
\* buckets are empty and the aggregated file list is not empty; when every token
\* resolved to Success but no file resulted, the run ends in the failed state, with
\* no context built, although no failure bucket holds an entry.
C21_GenerationNeedsFilesAndNoFailure ==
    /\ pc \in {"generate", "done"} => AllBucketsEmpty /\ final_ordered_files # <<>>
    /\ file_contexts # <<>> => pc = "done"
    /\ (/\ PastCheckErrors
        /\ \A i \in DOMAIN all_resolutions : all_resolutions[i].kind = "Success"
        /\ final_ordered_files = <<>>)
       => /\ pc = "exit_no_files"
          /\ AllBucketsEmpty
          /\ file_contexts = <<>>

\* C21 witness: the only token, d, names an empty directory; it resolved to Success
\* without a file and the run ended in the failed state, the buckets being empty.
C21_Witness ==
    /\ pc = "exit_no_files"
    /\ inputs = <<nD>>
    /\ FilesBeneath(pD) = {}
    /\ all_resolutions = <<Success(<<>>)>>
    /\ AllBucketsEmpty
    /\ file_contexts = <<>>

====
